---------------------------- MODULE Spec2Model ----------------------------
(***************************************************************************)
(* A model of src/cli.py, the command line interface of SurveyResponder.   *)
(*                                                                         *)
(* Text is a sequence of characters.  The questions file is a flat         *)
(* sequence of characters in which every line ends with "\n".              *)
(*                                                                         *)
(* Spec     repeated invocations of the CLI with the `questions`           *)
(*          subcommand, with no subcommand, or with a command line that    *)
(*          argparse rejects, against one questions file.                  *)
(* SpecRun  one invocation of the `run` subcommand: Init draws the command *)
(*          line and the file system, Run is lines 87-141.                 *)
(***************************************************************************)
EXTENDS Integers, Sequences, FiniteSets, TLC

VARIABLES
    fileExists,   \* os.path.exists(file_path) for the questions file
    fileContent,  \* the characters of the questions file
    pre,          \* the questions file when the last invocation started
    args,         \* the argparse namespace of the last `questions` invocation
    runArgs,      \* the argparse namespace and file system of the `run` invocation
    pc,           \* position of the `run` process: "start" or "exit"; "idle" in Spec
    exitCode,     \* exit status of the last invocation (-1: none yet)
    stdout,       \* what the last invocation printed to standard output
    stderr,       \* the message the last invocation printed to standard error
    delegate,     \* what happened to the SurveyResponder object
    raised        \* the exception raised on the `run` path ("none" if none)

vars == <<fileExists, fileContent, pre, args, runArgs, pc, exitCode, stdout,
          stderr, delegate, raised>>

---------------------------------------------------------------------------
(* Bounds of the model *)

\* longest --add text
MaxLen == 3
\* most lines an add may bring the questions file to
MaxLines == 2
\* most lines of the questions file at the start
InitLines == 3
\* longest --response-options string
MaxOptLen == 5
\* how far the temperatures go beyond [0.0, 2.0], in halves
TempSpan == 1

---------------------------------------------------------------------------
(* Characters and text *)

NL == "\n"
TextChars == {"a", " ", NL}
OptChars == {"A", ",", " "}

StringsOver(chars, n) == UNION {[1..k -> chars] : k \in 0..n}
Texts == StringsOver(TextChars, MaxLen)
OptStrings == StringsOver(OptChars, MaxOptLen)

\* the characters str.strip() removes
IsSpace(c) == c \in {" ", NL}

RECURSIVE lstrip(_)
lstrip(s) == IF s = <<>> THEN <<>>
             ELSE IF IsSpace(Head(s)) THEN lstrip(Tail(s)) ELSE s

RECURSIVE rstrip(_)
rstrip(s) == IF s = <<>> THEN <<>>
             ELSE IF IsSpace(s[Len(s)]) THEN rstrip(SubSeq(s, 1, Len(s) - 1)) ELSE s

\* str.strip()
strip(s) == rstrip(lstrip(s))

\* str.split(sep): the pieces between the separators, empty pieces included
RECURSIVE SplitFrom(_, _, _)
SplitFrom(s, sep, cur) ==
    IF s = <<>> THEN <<cur>>
    ELSE IF Head(s) = sep THEN <<cur>> \o SplitFrom(Tail(s), sep, <<>>)
    ELSE SplitFrom(Tail(s), sep, Append(cur, Head(s)))

split(s, sep) == SplitFrom(s, sep, <<>>)

\* the lines of a text file: the pieces ended by "\n", and an unterminated rest
FileLines(content) ==
    LET pieces == split(content, NL)
    IN  IF pieces[Len(pieces)] = <<>> THEN SubSeq(pieces, 1, Len(pieces) - 1)
        ELSE pieces

\* load_questions(file_path): the questions of the file, one per line
load_questions(content) == FileLines(content)

\* for q in questions: f.write(q + "\n")
RECURSIVE WriteLines(_)
WriteLines(questions) ==
    IF questions = <<>> THEN <<>>
    ELSE Head(questions) \o <<NL>> \o WriteLines(Tail(questions))

\* list.pop(index) applied to a copy: the list without that element
\* (a negative index counts from the end, as in Python)
PopIndex_OneTooFar(questions, index) ==
    LET k == (IF index < 0 THEN index + Len(questions) ELSE index) + 1
    IN  [j \in 1..(Len(questions) - 1) |->
            IF j <= k THEN questions[j] ELSE questions[j + 1]]

PopIndex(questions, index) ==
    LET k == IF index < 0 THEN index + Len(questions) ELSE index
    IN  [j \in 1..(Len(questions) - 1) |->
            IF j <= k THEN questions[j] ELSE questions[j + 1]]

Popped(questions, index) ==
    LET k == IF index < 0 THEN index + Len(questions) ELSE index
    IN  questions[k + 1]

\* list.pop(index) raises IndexError outside -len..len-1
PopRaises(questions, index) ==
    index < 0 - Len(questions) \/ index >= Len(questions)

---------------------------------------------------------------------------
(* The `questions` subcommand, lines 48-84 *)

\* argparse: exactly one of --list, --add, --delete is given (line 38)
ListArgs == [action |-> "list", add |-> <<>>, delete |-> 0]
AddArgs(t) == [action |-> "add", add |-> t, delete |-> 0]
DeleteArgs(n) == [action |-> "delete", add |-> <<>>, delete |-> n]
NoArgs == [action |-> "none", add |-> <<>>, delete |-> 0]

\* `if args.list:`
ArgsList(a) == a.action = "list"
\* `if args.add:` - None and the empty string are false
ArgsAdd(a) == a.action = "add" /\ a.add # <<>>
\* `elif args.delete:` - None and 0 are false
ArgsDelete(a) == a.action = "delete" /\ a.delete # 0

\* the bound test without its lower half: `if index >= len(questions):`
InvalidIndex_NoLowerBound(index, questions) == index >= Len(questions)

\* `if index < 0 or index >= len(questions):`
InvalidIndex(index, questions) == index < 0 \/ index >= Len(questions)

\* lines 51-57: the file after the existence check, or the error exit
EnsureFile(a, exists) ==
    IF exists THEN "exists"
    ELSE IF ArgsAdd(a) THEN "created" ELSE "missing"

\* enumerate(questions, 1)
Enumerate(questions) == [i \in 1..Len(questions) |-> <<i, questions[i]>>]

\* lines 48-84 as one function of the arguments and the file
QuestionsOutcome(a, exists, content) ==
    IF EnsureFile(a, exists) = "missing"
    THEN [exists |-> FALSE, content |-> content, exitCode |-> 1,
          stdout |-> <<>>, stderr |-> "Questions file not found"]
    ELSE IF ArgsList(a)
    THEN [exists |-> TRUE, content |-> content, exitCode |-> 0,
          stdout |-> Enumerate(load_questions(content)), stderr |-> "-"]
    ELSE IF ArgsAdd(a)
    THEN [exists |-> TRUE, content |-> content \o strip(a.add) \o <<NL>>,
          exitCode |-> 0, stdout |-> <<<<"Added question", strip(a.add)>>>>,
          stderr |-> "-"]
    ELSE IF ArgsDelete(a)
    THEN LET questions == load_questions(content)
             index == a.delete - 1
         IN  IF InvalidIndex(index, questions)
             THEN [exists |-> TRUE, content |-> content, exitCode |-> 1,
                   stdout |-> <<>>, stderr |-> "Invalid line number"]
             \* an IndexError of line 75 is caught nowhere: traceback, exit 1
             ELSE IF PopRaises(questions, index)
             THEN [exists |-> TRUE, content |-> content, exitCode |-> 1,
                   stdout |-> <<>>, stderr |-> "Traceback"]
             ELSE [exists |-> TRUE,
                   content |-> WriteLines(PopIndex(questions, index)),
                   exitCode |-> 0,
                   stdout |-> <<<<"Deleted question", Popped(questions, index)>>>>,
                   stderr |-> "-"]
    ELSE [exists |-> TRUE, content |-> content, exitCode |-> 1,
          stdout |-> <<>>, stderr |-> "No action specified"]

Questions(a) ==
    \E r \in {QuestionsOutcome(a, fileExists, fileContent)} :
        /\ Len(r.content) > Len(fileContent) => Len(FileLines(r.content)) <= MaxLines
        /\ pre' = [exists |-> fileExists, content |-> fileContent]
        /\ args' = [command |-> "questions"] @@ a
        /\ fileExists' = r.exists
        /\ fileContent' = r.content
        /\ exitCode' = r.exitCode
        /\ stdout' = r.stdout
        /\ stderr' = r.stderr
        /\ UNCHANGED <<runArgs, pc, delegate, raised>>

QuestionsList == Questions(ListArgs)
QuestionsAdd == \E t \in Texts : Questions(AddArgs(t))
DeleteNumbers == (0 - MaxLines - 1)..(MaxLines + 1)
QuestionsDelete == \E n \in DeleteNumbers : Questions(DeleteArgs(n))

\* no subcommand: args.command is None, neither branch of lines 48/87 is taken
\* and cli() returns
NoCommand ==
    /\ pre' = [exists |-> fileExists, content |-> fileContent]
    /\ args' = [command |-> "none"] @@ NoArgs
    /\ exitCode' = 0
    /\ stdout' = <<>>
    /\ stderr' = "-"
    /\ UNCHANGED <<fileExists, fileContent, runArgs, pc, delegate, raised>>

\* parser.parse_args() rejects the command line (no action of the required
\* group, two actions, a --delete that is no integer): usage message, exit 2
UsageError ==
    /\ pre' = [exists |-> fileExists, content |-> fileContent]
    /\ args' = [command |-> "usage"] @@ NoArgs
    /\ exitCode' = 2
    /\ stdout' = <<>>
    /\ stderr' = "usage"
    /\ UNCHANGED <<fileExists, fileContent, runArgs, pc, delegate, raised>>

---------------------------------------------------------------------------
(* The `run` subcommand, lines 87-141 *)

\* A temperature is a multiple of 1/TempScale, or float("nan"), which argparse's
\* type=float accepts and which compares false with everything.
TempScale == 2
Temperatures == (0 - TempSpan)..(2 * TempScale + TempSpan)

\* os.path.dirname(args.output): "" for a bare file name, else a directory
\* that exists or does not
OutputDirs == {"", "present", "absent"}

RunArgsSet ==
    [questions : BOOLEAN, persona : BOOLEAN, outputDir : OutputDirs,
     optionsGiven : {TRUE}, options : OptStrings,
     nan : {FALSE}, temperature : Temperatures]
    \cup
    [questions : BOOLEAN, persona : BOOLEAN, outputDir : OutputDirs,
     optionsGiven : {FALSE}, options : {<<>>},
     nan : {FALSE}, temperature : Temperatures]
    \cup
    [questions : BOOLEAN, persona : BOOLEAN, outputDir : OutputDirs,
     optionsGiven : BOOLEAN, options : {<<>>, <<"A", ",", "A", ",", "A">>},
     nan : {TRUE}, temperature : {0}]

IdleRun == [questions |-> FALSE, persona |-> FALSE, outputDir |-> "",
            optionsGiven |-> FALSE, options |-> <<>>, nan |-> FALSE,
            temperature |-> 0]

NoDelegate == [called |-> FALSE, constructed |-> FALSE, defaultScale |-> FALSE,
               options |-> <<>>, nan |-> FALSE, temperature |-> 0,
               ran |-> FALSE, finished |-> FALSE]

\* lines 92-96: split on ",", strip every piece, keep the non-empty ones
ParseOptions(s) ==
    LET pieces == split(s, ",")
        stripped == [i \in 1..Len(pieces) |-> strip(pieces[i])]
    IN  SelectSeq(stripped, LAMBDA x : x # <<>>)

\* `if args.response_options:` - None and the empty string are false
ArgsResponseOptions(a) == a.optionsGiven /\ a.options # <<>>

\* lines 89-96: response_options is None or the parsed list
ResponseOptions(a) ==
    IF ArgsResponseOptions(a)
    THEN [none |-> FALSE, list |-> ParseOptions(a.options)]
    ELSE [none |-> TRUE, list |-> <<>>]

\* the output directory test without its `not`
OutputDirMissing_Inverted(a) == a.outputDir # "" /\ a.outputDir = "present"

\* `if output_dir and not os.path.exists(output_dir):`
OutputDirMissing(a) == a.outputDir # "" /\ a.outputDir # "present"

\* `if response_options is not None and len(response_options) <= 2:`
TooFewOptions(ro) == ~ro.none /\ Len(ro.list) <= 2

\* the upper bound exclusive: `0.0 <= args.temperature < 2.0`
TemperatureInRange_Exclusive(a) ==
    ~a.nan /\ 0 <= a.temperature /\ a.temperature < 2 * TempScale

\* `0.0 <= args.temperature <= 2.0`
TemperatureInRange(a) ==
    ~a.nan /\ 0 <= a.temperature /\ a.temperature <= 2 * TempScale

\* lines 100-116: the exception the validation raises, "none" if it passes
ValidationError(a, ro) ==
    IF ~a.questions THEN "FileNotFoundError"
    ELSE IF ~a.persona THEN "FileNotFoundError"
    ELSE IF OutputDirMissing(a) THEN "FileNotFoundError"
    ELSE IF TooFewOptions(ro) THEN "ValueError"
    ELSE IF ~TemperatureInRange(a) THEN "ValueError"
    ELSE "none"

\* the exception classes the except clauses of lines 128-139 tell apart;
\* "Exception" stands for every other subclass of Exception
Exceptions == {"FileNotFoundError", "ValueError", "ConnectionError", "Exception"}
\* what a call of the delegate (its constructor, its run_write) may do
CallOutcomes == {"ok"} \cup Exceptions

\* lines 128-139: the prefix printed for an exception caught by the try
Handler(exc) ==
    CASE exc = "FileNotFoundError" -> "File Error"
      [] exc = "ValueError" -> "Input Error"
      [] exc = "ConnectionError" -> "Connection Error"
      [] OTHER -> "Unexpected Error"

\* lines 119-126: the delegate as the constructor call leaves it
Constructed(a, ro, ctor) ==
    [called |-> TRUE, constructed |-> ctor = "ok", defaultScale |-> ro.none,
     options |-> ro.list, nan |-> a.nan, temperature |-> a.temperature,
     ran |-> FALSE, finished |-> FALSE]

\* lines 87-141 as one function of the arguments, the file system and what the
\* two calls of the delegate do
RunOutcome(a, ctor, rw) ==
    LET ro == ResponseOptions(a)
        err == ValidationError(a, ro)
    IN  IF err # "none"
        THEN [exitCode |-> 1, stderr |-> Handler(err), delegate |-> NoDelegate,
              raised |-> err]
        ELSE IF ctor # "ok"
        THEN [exitCode |-> 1, stderr |-> Handler(ctor),
              delegate |-> Constructed(a, ro, ctor), raised |-> ctor]
        \* line 141 is outside the try: an exception of run_write is not caught,
        \* the interpreter prints a traceback and exits with status 1
        ELSE IF rw # "ok"
        THEN [exitCode |-> 1, stderr |-> "Traceback",
              delegate |-> [Constructed(a, ro, ctor) EXCEPT !.ran = TRUE],
              raised |-> rw]
        ELSE [exitCode |-> 0, stderr |-> "-",
              delegate |-> [Constructed(a, ro, ctor) EXCEPT !.ran = TRUE,
                                                            !.finished = TRUE],
              raised |-> "none"]

Run ==
    /\ pc = "start"
    /\ \E ctor \in CallOutcomes, rw \in CallOutcomes :
         \E r \in {RunOutcome(runArgs, ctor, rw)} :
            /\ exitCode' = r.exitCode
            /\ stderr' = r.stderr
            /\ delegate' = r.delegate
            /\ raised' = r.raised
    /\ pc' = "exit"
    /\ UNCHANGED <<fileExists, fileContent, pre, args, runArgs, stdout>>

---------------------------------------------------------------------------
(* Initial states *)

\* questions files written by the tool: every line non-empty and ended by "\n"
InitQuestions == {<<"a">>, <<"a", "a">>}
InitFiles == {WriteLines(qs) : qs \in StringsOver(InitQuestions, InitLines)}

Init ==
    /\ fileExists \in BOOLEAN
    /\ fileContent \in (IF fileExists THEN InitFiles ELSE {<<>>})
    /\ pre = [exists |-> fileExists, content |-> fileContent]
    /\ args = [command |-> "init"] @@ NoArgs
    /\ runArgs = IdleRun
    /\ pc = "idle"
    /\ exitCode = -1
    /\ stdout = <<>>
    /\ stderr = "-"
    /\ delegate = NoDelegate
    /\ raised = "none"

Next == QuestionsList \/ QuestionsAdd \/ QuestionsDelete \/ NoCommand \/ UsageError

Spec == Init /\ [][Next]_vars

\* one `run` invocation: any command line, any file system
InitRun ==
    /\ fileExists = FALSE
    /\ fileContent = <<>>
    /\ pre = [exists |-> FALSE, content |-> <<>>]
    /\ args = [command |-> "run"] @@ NoArgs
    /\ runArgs \in RunArgsSet
    /\ pc = "start"
    /\ exitCode = -1
    /\ stdout = <<>>
    /\ stderr = "-"
    /\ delegate = NoDelegate
    /\ raised = "none"

NextRun == Run

SpecRun == InitRun /\ [][NextRun]_vars

---------------------------------------------------------------------------
(* Properties of the `questions` subcommand, checked under Spec *)

LastWasQuestions(action) == args.command = "questions" /\ args.action = action
\* the lines of the questions file when the last invocation started
Q == FileLines(pre.content)
\* a sequence without its i-th element
RemoveAt(seq, i) == SubSeq(seq, 1, i - 1) \o SubSeq(seq, i + 1, Len(seq))

\* C1: after `questions --add t` the file holds exactly the earlier lines Q
\* followed by the one line strip(t), whatever Q (the file may have been
\* absent) and whatever t, and a following `questions --list` prints strip(t)
\* with index len(Q)+1.
C1_AddAppendsOneStrippedLine ==
    LastWasQuestions("add") =>
        /\ fileExists
        /\ FileLines(fileContent) = Q \o <<strip(args.add)>>
        /\ LET listed == QuestionsOutcome(ListArgs, fileExists, fileContent).stdout
           IN  /\ Len(listed) = Len(Q) + 1
               /\ listed[Len(Q) + 1] = <<Len(Q) + 1, strip(args.add)>>

\* C2: `questions --delete i` with 1 <= i <= len(Q) leaves the file holding
\* exactly Q without its i-th line, the other lines unchanged and in order,
\* and does not exit with an error.
C2_DeleteRemovesExactlyLineI ==
    (LastWasQuestions("delete") /\ pre.exists /\ args.delete \in 1..Len(Q)) =>
        /\ exitCode = 0
        /\ fileExists
        /\ FileLines(fileContent) = RemoveAt(Q, args.delete)
        /\ fileContent = WriteLines(RemoveAt(Q, args.delete))

\* a delete of the middle line of three, the outer two different
C2_Witness ==
    /\ LastWasQuestions("delete")
    /\ pre.exists
    /\ Len(Q) = 3
    /\ args.delete = 2
    /\ Q[1] # Q[3]
    /\ exitCode = 0
    /\ FileLines(fileContent) = <<Q[1], Q[3]>>

\* C3: `questions --delete i` on an existing file with i outside 1..len(Q)
\* (zero, negative, greater than len(Q)) leaves the file content exactly as it
\* was and exits with a non-zero status.
C3_OutOfRangeDeleteChangesNothing ==
    (LastWasQuestions("delete") /\ pre.exists /\ args.delete \notin 1..Len(Q)) =>
        /\ exitCode # 0
        /\ fileExists
        /\ fileContent = pre.content

\* a delete of line len(Q)+1 of a file that has lines
C3_Witness ==
    /\ LastWasQuestions("delete")
    /\ pre.exists
    /\ Len(Q) >= 2
    /\ args.delete = Len(Q) + 1
    /\ exitCode = 1
    /\ stderr = "Invalid line number"
    /\ fileContent = pre.content

\* what the claims count as the requested operation having been carried out
CarriedOut ==
    CASE LastWasQuestions("list") -> pre.exists /\ stdout = Enumerate(Q)
      [] LastWasQuestions("add") -> fileExists /\ Len(FileLines(fileContent)) > Len(Q)
      [] LastWasQuestions("delete") -> fileExists /\ Len(FileLines(fileContent)) < Len(Q)
      [] args.command = "run" /\ pc = "exit" -> delegate.constructed /\ delegate.finished
      [] OTHER -> FALSE

HandledErrors == {"Questions file not found", "Invalid line number",
                  "No action specified", "File Error", "Input Error",
                  "Connection Error", "Unexpected Error"}

\* C8: the exit code of every CLI invocation is 0 exactly when the requested
\* operation was carried out (a question listed, added or deleted, or the
\* delegate constructed and run), and 1 for every handled error: no invocation
\* that carried out nothing exits with 0, none that carried out its operation
\* exits with 1.
C8_ExitCodeZeroIffCarriedOut ==
    (args.command \in {"questions", "none", "usage"} \/ pc = "exit") =>
        /\ (exitCode = 0) <=> CarriedOut
        /\ stderr \in HandledErrors => exitCode = 1

\* C9: when the questions file does not exist, --list and --delete n (any n)
\* exit with an error status and do not create the file, and --add t (any t
\* the argument parser accepts) creates the file: a missing file is an error
\* exactly when the action is not add.
C9_MissingFileIsErrorIffNotAdd ==
    (args.command = "questions" /\ ~pre.exists) =>
        /\ args.action \in {"list", "delete"} => (exitCode # 0 /\ ~fileExists)
        /\ args.action = "add" => (fileExists /\ exitCode = 0)

\* C10: starting from a file whose lines are all non-empty, after any sequence
\* of adds and deletes every line of the file is a non-empty string, and an
\* add whose trimmed text is empty appends nothing.
C10_NoEmptyLine ==
    /\ \A i \in 1..Len(FileLines(fileContent)) : FileLines(fileContent)[i] # <<>>
    /\ (LastWasQuestions("add") /\ strip(args.add) = <<>>) =>
           fileContent = pre.content

---------------------------------------------------------------------------
(* Properties of the `run` subcommand, checked under SpecRun *)

\* C4: a `run` whose questions file or persona file does not exist, or whose
\* output path has a non-empty directory part that does not exist, exits with
\* code 1, and the delegate is neither constructed nor run.
C4_MissingInputsNeverReachDelegate ==
    (/\ pc = "exit"
     /\ \/ ~runArgs.questions
        \/ ~runArgs.persona
        \/ runArgs.outputDir = "absent") =>
        /\ exitCode = 1
        /\ ~delegate.called
        /\ ~delegate.constructed
        /\ ~delegate.ran

\* both files exist, only the output directory is missing
C4_Witness ==
    /\ pc = "exit"
    /\ runArgs.questions
    /\ runArgs.persona
    /\ runArgs.outputDir = "absent"
    /\ TemperatureInRange(runArgs)
    /\ ~runArgs.optionsGiven
    /\ exitCode = 1
    /\ stderr = "File Error"
    /\ ~delegate.called

\* C5: a supplied --response-options string is parsed into its comma-separated
\* tokens, trimmed, empty ones dropped, in order; the run is rejected (exit
\* code 1, no delegate constructed) if that list has 2 or fewer entries, and
\* the delegate receives the list only if it has more than 2.  This holds for
\* every supplied string, the empty one included.
C5_FewOptionsRejected ==
    (pc = "exit" /\ runArgs.optionsGiven) =>
        LET list == ParseOptions(runArgs.options)
        IN  /\ Len(list) <= 2 => (exitCode = 1 /\ ~delegate.called)
            /\ delegate.called =>
                  (Len(list) > 2 /\ ~delegate.defaultScale /\ delegate.options = list)

\* the other inputs of a run are valid
OtherInputsValid ==
    /\ runArgs.questions
    /\ runArgs.persona
    /\ runArgs.outputDir # "absent"
    /\ runArgs.optionsGiven => Len(ParseOptions(runArgs.options)) > 2

\* 0.0 <= t <= 2.0
InClosedRange(a) == ~a.nan /\ a.temperature \in 0..(2 * TempScale)

\* C6: with the other inputs valid, the delegate is constructed if and only if
\* 0.0 <= t <= 2.0; 0.0 and 2.0 are accepted and passed on unchanged, every
\* other t is rejected with exit code 1 and no delegate constructed.
C6_TemperatureRangeInclusive ==
    (pc = "exit" /\ OtherInputsValid) =>
        /\ delegate.called <=> InClosedRange(runArgs)
        /\ delegate.called =>
              (delegate.temperature = runArgs.temperature /\ delegate.nan = runArgs.nan)
        /\ ~InClosedRange(runArgs) =>
              (exitCode = 1 /\ stderr = "Input Error" /\ ~delegate.constructed)

\* a run with temperature 2.0 whose delegate was constructed with 2.0
C6_Witness ==
    /\ pc = "exit"
    /\ OtherInputsValid
    /\ ~runArgs.nan
    /\ runArgs.temperature = 2 * TempScale
    /\ delegate.constructed
    /\ delegate.temperature = 2 * TempScale

\* the category a reported exception gets
Category(exc) ==
    CASE exc = "FileNotFoundError" -> "File Error"
      [] exc = "ValueError" -> "Input Error"
      [] exc = "ConnectionError" -> "Connection Error"
      [] exc = "Exception" -> "Unexpected Error"

\* C7: every exception raised on the run path (validation, construction of
\* the delegate, its run-and-write operation) is reported under its category
\* ("File Error", "Input Error", "Connection Error", "Unexpected Error") with
\* exit code 1; none escapes unreported.
C7_EveryExceptionReported ==
    (pc = "exit" /\ raised # "none") =>
        /\ exitCode = 1
        /\ stderr = Category(raised)

===========================================================================
